---- MODULE Spec2Model ----
(***************************************************************************)
(* FastHybridRAG (scripts/hybrid_rag.py): the router that answers a        *)
(* question from a pre-built Cypher template when the embedding similarity *)
(* reaches the threshold and from an LLM-generated query otherwise.        *)
(*                                                                         *)
(* Conventions of the model                                                *)
(*   - a Python str is a sequence of tokens (TLA+ strings); concatenation  *)
(*     is \o, "a in b" is Contains(b, a).  The token "\n" is a line break, *)
(*     " " a blank; every other token is printable text without quotes,    *)
(*     backslashes or line breaks;                                         *)
(*   - a similarity (a float in [0, 1]) is kept in thousandths, rounded    *)
(*     down; thresholds are whole thousandths, so s >= t is exact;         *)
(*   - a store row (a dict) is a sequence of <<column, value>> pairs in    *)
(*     column order, a value is <<tag, text>> with tag "str", "int" or     *)
(*     "none";                                                             *)
(*   - a call returns [raised, exc, val, calls]: whether it raised, the    *)
(*     exception text, the returned value, and the external calls made.    *)
(***************************************************************************)
EXTENDS Integers, Sequences, FiniteSets, TLC

VARIABLES
    neo4j_available,      \* self.neo4j_available, set by _setup_connections
    llm,                  \* self.llm: "OllamaLLM" or "None"
    query_templates,      \* self.query_templates, in insertion order
    template_keys,        \* self.template_keys
    template_embeddings,  \* self.template_embeddings
    storeUp,              \* environment: the graph store accepts sessions
    request,              \* <<>> or <<[question, similarity_threshold]>>: the last query call
    response,             \* outcome of the last query call
    calls,                \* external calls the last query call made, in order
    earlier,              \* <<>> or the threshold and path of the call before, same question
    history,              \* caller's record of the calls made on the instance, in order
    threads,              \* the web server's request threads inside query
    RAG_AVAILABLE,        \* app.py: the import of FastHybridRAG succeeded
    rag_system,           \* app.py: the global, <<>> (None) or <<n>>, the n-th instance made
    instances,            \* FastHybridRAG objects constructed so far
    workers,              \* the web server's request threads, by route and position
    arrivals              \* requests received so far

vars == <<neo4j_available, llm, query_templates, template_keys,
          template_embeddings, storeUp, request, response, calls, earlier,
          history, threads, RAG_AVAILABLE, rag_system, instances, workers,
          arrivals>>

\* the web application's state
webVars == <<RAG_AVAILABLE, rag_system, instances, workers, arrivals>>

-----------------------------------------------------------------------------
(* Bounds of the model *)

\* number of catalog entries (a prefix of the 22 of _setup_query_templates)
NumTemplates == 3
\* most rows a successful store reply carries
MaxRows == 2
\* most rows of a store reply longer than the display cap
MaxLong == 11
\* most calls a caller's record holds
MaxHistory == 3
\* number of request threads of the web server
NumThreads == 2

(* Program constants *)

\* def query(self, question, similarity_threshold: float = 0.5), in thousandths
DefaultThreshold == 500
\* for result in results[:10]
DisplayCap == 10

-----------------------------------------------------------------------------
(* Python strings *)

NL == "\n"

Whitespace == {" ", NL, "\t"}

RECURSIVE Join(_, _)
\* sep.join(parts)
Join(sep, parts) ==
    IF parts = <<>> THEN <<>>
    ELSE IF Len(parts) = 1 THEN parts[1]
    ELSE parts[1] \o sep \o Join(sep, Tail(parts))

\* needle in hay
Contains(hay, needle) ==
    \E i \in 0..(Len(hay) - Len(needle)) :
        SubSeq(hay, i + 1, i + Len(needle)) = needle

RECURSIVE LStrip(_)
LStrip(s) ==
    IF s # <<>> /\ Head(s) \in Whitespace THEN LStrip(Tail(s)) ELSE s

RECURSIVE RStrip(_)
RStrip(s) ==
    IF s # <<>> /\ s[Len(s)] \in Whitespace
    THEN RStrip(SubSeq(s, 1, Len(s) - 1)) ELSE s

\* a strip that leaves the text as it is
StripNothing(s) == s

\* str.strip()
Strip(s) == RStrip(LStrip(s))

\* repr() of one token of a str: a line break or a tab is written as an escape
ReprToken(c) ==
    IF c = NL THEN "\\n" ELSE IF c = "\t" THEN "\\t" ELSE c

\* repr(s) of a str: quoted, control characters escaped
PyReprStr(s) ==
    <<"'">> \o [i \in 1..Len(s) |-> ReprToken(s[i])] \o <<"'">>

Digits == <<"0", "1", "2", "3", "4", "5", "6", "7", "8", "9">>

RECURSIVE StrNat(_)
\* str(n) of a natural number
StrNat(n) ==
    IF n < 10 THEN <<Digits[n + 1]>>
    ELSE StrNat(n \div 10) \o <<Digits[(n % 10) + 1]>>

\* f"{similarity:.3f}" of a similarity kept in thousandths
Fmt3f(s) ==
    LET a == IF s < 0 THEN -s ELSE s
    IN  (IF s < 0 THEN <<"-">> ELSE <<>>)
        \o StrNat(a \div 1000) \o <<".">>
        \o <<Digits[((a \div 100) % 10) + 1], Digits[((a \div 10) % 10) + 1],
             Digits[(a % 10) + 1]>>

-----------------------------------------------------------------------------
(* Row values and rows *)

None == <<"none", <<>>>>
StrVal(text) == <<"str", text>>

\* str(v)
PyStr(v) == IF v[1] = "none" THEN <<"None">> ELSE v[2]

\* repr(v)
PyRepr(v) ==
    IF v[1] = "none" THEN <<"None">>
    ELSE IF v[1] = "str" THEN PyReprStr(v[2])
    ELSE v[2]

\* key in row
HasKey(row, key) == \E i \in 1..Len(row) : row[i][1] = key

\* row.get(key, default)
Get(row, key, default) ==
    IF HasKey(row, key)
    THEN row[CHOOSE i \in 1..Len(row) : row[i][1] = key][2]
    ELSE default

\* list(row.values())
Values(row) == [i \in 1..Len(row) |-> row[i][2]]

\* repr(row) of a dict
PyReprRow(row) ==
    <<"{">>
    \o Join(<<", ">>, [i \in 1..Len(row) |->
                 PyReprStr(<<row[i][1]>>) \o <<": ">> \o PyRepr(row[i][2])])
    \o <<"}">>

\* str(results) of a list of dicts
PyStrRows(rows) ==
    <<"[">> \o Join(<<", ">>, [i \in 1..Len(rows) |-> PyReprRow(rows[i])]) \o <<"]">>

\* any("error" in result for result in results)
AnyError(results) == \E i \in 1..Len(results) : HasKey(results[i], "error")

-----------------------------------------------------------------------------
(* Results of calls *)

Return(v, made) == [raised |-> FALSE, exc |-> <<>>, val |-> v, calls |-> made]
Raise(e, made) == [raised |-> TRUE, exc |-> e, val |-> <<>>, calls |-> made]

-----------------------------------------------------------------------------
(* The template catalog of _setup_query_templates: its first entries *)

Catalog ==
    << [key |-> "list all stakeholders",
        cypher |-> <<"MATCH (s:Stakeholder) RETURN s.name, s.department, s.email ORDER BY s.name">>,
        description |-> "Get all stakeholders with their details"],
       [key |-> "who are the stakeholders",
        cypher |-> <<"MATCH (s:Stakeholder) RETURN s.name ORDER BY s.name">>,
        description |-> "Get stakeholder names"],
       [key |-> "show stakeholder roles",
        cypher |-> <<"MATCH (s:Stakeholder)-[:PLAYS_ROLE]->(r:Role) RETURN s.name, r.name, r.responsibilities">>,
        description |-> "Get stakeholders and their roles"],
       [key |-> "what are the goals",
        cypher |-> <<"MATCH (g:Goal) RETURN g.id, g.name, g.description ORDER BY g.name LIMIT 10">>,
        description |-> "Get project goals"],
       [key |-> "show project constraints",
        cypher |-> <<"MATCH (c:Constraint) RETURN c.id, c.name, c.description ORDER BY c.name LIMIT 10">>,
        description |-> "Get project constraints"] >>

\* list(d.keys()) of an insertion-ordered dict
Keys(templates) == [i \in 1..Len(templates) |-> templates[i].key]

\* d[key]
Lookup(templates, key) ==
    templates[CHOOSE i \in 1..Len(templates) : templates[i].key = key]

\* key + " " + self.query_templates[key]["description"]
TemplateText(templates, key) == <<key, " ", Lookup(templates, key).description>>

-----------------------------------------------------------------------------
(* The embedding model and the similarity (sentence_transformers, sklearn) *)

Vectors == [1..4 -> {0, 1}]

\* SentenceTransformer.encode of one text.  Texts about the same thing get the
\* same direction; a text the model knows nothing about gets a direction of
\* its own.
Encode(text) ==
    CASE text \in {<<"list all stakeholders", " ", "Get all stakeholders with their details">>}
            -> <<1, 1, 0, 0>>
      [] text \in {<<"who are the stakeholders", " ", "Get stakeholder names">>,
                   <<"who are the stakeholders">>}
            -> <<1, 0, 1, 0>>
      [] text \in {<<"show stakeholder roles", " ", "Get stakeholders and their roles">>}
            -> <<0, 1, 1, 0>>
      [] text \in {<<"what are the goals", " ", "Get project goals">>}
            -> <<0, 1, 0, 0>>
      [] text \in {<<"show project constraints", " ", "Get project constraints">>}
            -> <<0, 0, 1, 0>>
      [] text \in {<<"stakeholders">>}
            -> <<1, 0, 0, 0>>
      [] text \in {<<"who is involved in the budget">>}
            -> <<1, 0, 0, 1>>
      [] OTHER
            -> <<0, 0, 0, 1>>

Dot(a, b) == a[1] * b[1] + a[2] * b[2] + a[3] * b[3] + a[4] * b[4]

RECURSIVE ISqrtBetween(_, _, _)
\* the largest s in lo..hi with s * s <= n, by bisection
ISqrtBetween(n, lo, hi) ==
    IF lo = hi THEN lo
    ELSE LET mid == (lo + hi + 1) \div 2
         IN  IF mid * mid <= n THEN ISqrtBetween(n, mid, hi)
             ELSE ISqrtBetween(n, lo, mid - 1)

\* floor(sqrt(n)) for n in 0..1000000
ISqrt(n) == ISqrtBetween(n, 0, 1000)

\* cosine similarity of every pair of vectors, in thousandths rounded down;
\* a zero vector has similarity 0 to everything
CosineTable ==
    [p \in Vectors \X Vectors |->
        LET d == Dot(p[1], p[2])
            n == Dot(p[1], p[1]) * Dot(p[2], p[2])
        IN  IF n = 0 THEN 0 ELSE ISqrt((1000000 * d * d) \div n)]

\* cosine_similarity(question_embedding, self.template_embeddings)[0]
cosine_similarity(qe, embeddings) ==
    [i \in 1..Len(embeddings) |-> CosineTable[<<qe, embeddings[i]>>]]

\* an argmax returning the last index holding the maximum
argmax_last(xs) ==
    CHOOSE i \in 1..Len(xs) :
        /\ \A j \in 1..Len(xs) : xs[j] <= xs[i]
        /\ \A j \in (i + 1)..Len(xs) : xs[j] < xs[i]

\* np.argmax: the first index holding the maximum
argmax(xs) ==
    CHOOSE i \in 1..Len(xs) :
        /\ \A j \in 1..Len(xs) : xs[j] <= xs[i]
        /\ \A j \in 1..(i - 1) : xs[j] < xs[i]

-----------------------------------------------------------------------------
(* Construction: __init__ and its three set-up steps *)

\* _setup_query_templates: the dict literal
SetupQueryTemplates == SubSeq(Catalog, 1, NumTemplates)

\* the key list taken in another order than the catalog's
SetupTemplateKeysReversed(templates) ==
    [i \in 1..Len(templates) |-> Keys(templates)[Len(templates) + 1 - i]]

\* _setup_embeddings: the key list and one embedding per key, by position
SetupTemplateKeys(templates) == Keys(templates)

\* embeddings made of the keys alone, without the descriptions
SetupEmbeddingsOfKeys(templates) ==
    [i \in 1..Len(templates) |-> Encode(<<Keys(templates)[i]>>)]

SetupEmbeddings(templates) ==
    [i \in 1..Len(templates) |->
        Encode(TemplateText(templates, Keys(templates)[i]))]

-----------------------------------------------------------------------------
(* The environment: the generation service and the graph store *)

GeneratedCypher == <<"MATCH (n:Risk) RETURN n.name">>

\* what self.llm.invoke(prompt) may do: return text (clean, padded with white
\* space, or not a query at all) or raise
LlmReplies ==
    { Return(GeneratedCypher, <<>>),
      Return(<<" ">> \o GeneratedCypher \o <<NL>>, <<>>),
      Return(<<"Here is the query you asked for">>, <<>>),
      Raise(<<"[Errno 111] Connection refused">>, <<>>) }

\* the rows a store row can be: a name, a null
RowKinds ==
    { << <<"n.name", StrVal(<<"Alice">>)>> >>,
      << <<"n.name", None>> >> }

RECURSIVE RowSeqs(_)
\* every sequence of at most n rows
RowSeqs(n) ==
    IF n = 0 THEN {<<>>}
    ELSE RowSeqs(n - 1)
         \cup {Append(rs, r) : rs \in {x \in RowSeqs(n - 1) : Len(x) = n - 1},
                               r \in RowKinds}

Unreachable ==
    <<"Couldn't connect to localhost:7687 (resolved to ()):", NL,
      "Failed to establish connection (reason [Errno 111] Connection refused)">>

SyntaxError ==
    <<"{code: Neo.ClientError.Statement.SyntaxError} {message: Invalid input}">>

TransientError ==
    <<"{code: Neo.TransientError.General.DatabaseUnavailable} {message: The database is unavailable}">>

\* what the store may answer to a query it can parse while it is up
StoreChoices ==
    {Return(rs, <<>>) : rs \in RowSeqs(MaxRows)} \cup {Raise(TransientError, <<>>)}

\* a query text the store can parse
WellFormed(cypher) ==
    \/ cypher = GeneratedCypher
    \/ \E i \in 1..Len(Catalog) : cypher = Catalog[i].cypher

\* with self.graph._driver.session() as session: session.run(cypher), then
\* [dict(record) for record in result]; up: the store accepts sessions,
\* choice: its answer to a query it can parse
SessionRun(cypher, up, choice) ==
    IF ~up THEN Raise(Unreachable, <<>>)
    ELSE IF ~WellFormed(cypher) THEN Raise(SyntaxError, <<>>)
    ELSE choice

-----------------------------------------------------------------------------
(* FastHybridRAG's methods *)

\* a matcher that keeps the match of the last query call and returns it for
\* whatever it is asked next
find_best_template_memoised(question) ==
    LET asked == IF request # <<>> THEN request[1].question ELSE question
        question_embedding == Encode(asked)
        similarities == cosine_similarity(question_embedding, template_embeddings)
        best_idx == argmax(similarities)
        best_template_key == template_keys[best_idx]
    IN  [key |-> best_template_key,
         similarity |-> similarities[best_idx],
         template |-> Lookup(query_templates, best_template_key)]

\* find_best_template(question): (best_template_key, best_similarity, best_template)
find_best_template(question) ==
    LET question_embedding == Encode(question)
        similarities == cosine_similarity(question_embedding, template_embeddings)
        best_idx == argmax(similarities)
        best_template_key == template_keys[best_idx]
    IN  [key |-> best_template_key,
         similarity |-> similarities[best_idx],
         template |-> Lookup(query_templates, best_template_key)]

ErrorRow(text) == << <<"error", StrVal(text)>> >>

\* execute_cypher without its try/except: a failing run propagates
execute_cypher_uncaught(cypher, store) ==
    IF ~neo4j_available
    THEN Return(<<ErrorRow(<<"Neo4j not available">>)>>, <<"execute_cypher">>)
    ELSE LET r == SessionRun(cypher, store.up, store.choice)
             made == <<"execute_cypher",
                       IF r.raised THEN "session.run raised" ELSE "session.run">>
         IN  IF r.raised THEN Raise(r.exc, made) ELSE Return(r.val, made)

\* execute_cypher returning no rows when the run fails
execute_cypher_swallowing(cypher, store) ==
    IF ~neo4j_available
    THEN Return(<<ErrorRow(<<"Neo4j not available">>)>>, <<"execute_cypher">>)
    ELSE LET r == SessionRun(cypher, store.up, store.choice)
             made == <<"execute_cypher",
                       IF r.raised THEN "session.run raised" ELSE "session.run">>
         IN  IF r.raised THEN Return(<<>>, made) ELSE Return(r.val, made)

\* execute_cypher asking the store whenever it is up, whatever was found at
\* construction
execute_cypher_reconnecting(cypher, store) ==
    IF ~neo4j_available /\ ~store.up
    THEN Return(<<ErrorRow(<<"Neo4j not available">>)>>, <<"execute_cypher">>)
    ELSE LET r == SessionRun(cypher, store.up, store.choice)
             made == <<"execute_cypher",
                       IF r.raised THEN "session.run raised" ELSE "session.run">>
         IN  IF r.raised
             THEN Return(<<ErrorRow(<<"Query execution failed: ">> \o r.exc)>>, made)
             ELSE Return(r.val, made)

\* execute_cypher running the query a second time when the run fails
execute_cypher_retrying(cypher, store) ==
    IF ~neo4j_available
    THEN Return(<<ErrorRow(<<"Neo4j not available">>)>>, <<"execute_cypher">>)
    ELSE LET r == SessionRun(cypher, store.up, store.choice)
         IN  IF r.raised
             THEN Return(<<ErrorRow(<<"Query execution failed: ">> \o r.exc)>>,
                         <<"execute_cypher", "session.run raised", "session.run raised">>)
             ELSE Return(r.val, <<"execute_cypher", "session.run">>)

\* execute_cypher(cypher); store = [up, choice] is what the store does if asked
execute_cypher(cypher, store) ==
    IF ~neo4j_available
    THEN Return(<<ErrorRow(<<"Neo4j not available">>)>>, <<"execute_cypher">>)
    ELSE LET r == SessionRun(cypher, store.up, store.choice)
             made == <<"execute_cypher",
                       IF r.raised THEN "session.run raised" ELSE "session.run">>
         IN  IF r.raised
             THEN Return(<<ErrorRow(<<"Query execution failed: ">> \o r.exc)>>, made)
             ELSE Return(r.val, made)

RECURSIVE FormattedLinesWithNulls(_)
\* the loop of _format_results without "if v is not None"
FormattedLinesWithNulls(rows) ==
    IF rows = <<>> THEN <<>>
    ELSE LET result == Head(rows)
             vs == Values(result)
             values == [i \in 1..Len(vs) |-> PyStr(vs[i])]
         IN  (IF result # <<>> /\ values # <<>>
              THEN << Join(<<" | ">>, values) >> ELSE <<>>)
             \o FormattedLinesWithNulls(Tail(rows))

RECURSIVE FormattedLines(_)
\* the loop of _format_results over the rows it is given
FormattedLines(rows) ==
    IF rows = <<>> THEN <<>>
    ELSE LET result == Head(rows)
             vs == Values(result)
             values == [i \in 1..Len(SelectSeq(vs, LAMBDA v : v # None)) |->
                           PyStr(SelectSeq(vs, LAMBDA v : v # None)[i])]
         IN  (IF result # <<>> /\ values # <<>>
              THEN << Join(<<" | ">>, values) >> ELSE <<>>)
             \o FormattedLines(Tail(rows))

\* _format_results without the slice: for result in results
_format_results_uncapped(question, results, description) ==
    IF results = <<>> THEN <<"No results found.">>
    ELSE IF AnyError(results)
    THEN <<"Error executing query: ">>
         \o PyStr(Get(results[1], "error", StrVal(<<"Unknown error">>)))
    ELSE LET formatted_lines == FormattedLines(results)
         IN  IF formatted_lines # <<>>
             THEN <<"Found ">> \o StrNat(Len(results)) \o <<" result(s):", NL>>
                  \o Join(<<NL>>, formatted_lines)
             ELSE <<"Results found but no displayable data.">>

\* _format_results(question, results, description)
_format_results(question, results, description) ==
    IF results = <<>> THEN <<"No results found.">>
    ELSE IF AnyError(results)
    THEN <<"Error executing query: ">>
         \o PyStr(Get(results[1], "error", StrVal(<<"Unknown error">>)))
    ELSE LET shown == SubSeq(results, 1, IF Len(results) < DisplayCap
                                         THEN Len(results) ELSE DisplayCap)
             formatted_lines == FormattedLines(shown)
         IN  IF formatted_lines # <<>>
             THEN <<"Found ">> \o StrNat(Len(results)) \o <<" result(s):", NL>>
                  \o Join(<<NL>>, formatted_lines)
             ELSE <<"Results found but no displayable data.">>

\* the template branch of query: similarity >= similarity_threshold
query_template(question, m, store) ==
    LET cypher == m.template.cypher
        ex == execute_cypher(cypher, store)
        made == <<"find_best_template">> \o ex.calls
    IN  IF ex.raised THEN Raise(ex.exc, made)
        ELSE LET results == ex.val
                 answer ==
                     IF results # <<>> /\ ~AnyError(results)
                     THEN _format_results(question, results, m.template.description)
                     ELSE <<"No results found or error: ">> \o PyStrRows(results)
             IN  Return([question |-> question,
                         method |-> "template",
                         template_used |-> <<m.key>>,
                         similarity |-> m.similarity,
                         cypher |-> cypher,
                         results |-> results,
                         answer |-> answer,
                         execution_time |-> "< 1 second"], made)

\* the LLM branch without its try/except: the exception propagates
llm_fallback_failed_propagates(question, e, made) == Raise(e, made)

\* the except branch building its response without an answer
llm_fallback_failed_without_answer(question, e, made) ==
    Return([question |-> question,
            method |-> "error",
            error |-> <<"LLM fallback failed: ">> \o e], made)

\* except Exception as e, around the LLM branch
llm_fallback_failed(question, e, made) ==
    Return([question |-> question,
            method |-> "error",
            error |-> <<"LLM fallback failed: ">> \o e,
            answer |-> <<"Sorry, I couldn't process your question.">>], made)

\* the LLM branch of query: self.llm is set; generated = what llm.invoke does
query_llm(question, m, generated, store) ==
    IF generated.raised
    THEN llm_fallback_failed(question, generated.exc,
                             <<"find_best_template", "llm.invoke raised">>)
    ELSE LET cypher == Strip(generated.val)
             ex == execute_cypher(cypher, store)
             made == <<"find_best_template", "llm.invoke">> \o ex.calls
         IN  IF ex.raised THEN llm_fallback_failed(question, ex.exc, made)
             ELSE LET results == ex.val
                      answer == _format_results(question, results,
                                               <<"LLM generated query">>)
                  IN  Return([question |-> question,
                              method |-> "llm_fallback",
                              template_used |-> <<>>,
                              similarity |-> m.similarity,
                              cypher |-> cypher,
                              results |-> results,
                              answer |-> answer,
                              execution_time |-> "3-5 seconds"], made)

Guidance ==
    <<"Try rephrasing your question or asking about: stakeholders, requirements, features, or domain knowledge.">>

\* the last branch of query with the advice left out of the answer
query_no_match_without_guidance(question, m) ==
    Return([question |-> question,
            method |-> "no_match",
            template_used |-> <<m.key>>,
            similarity |-> m.similarity,
            answer |-> <<"No good template match (similarity: ">>
                       \o Fmt3f(m.similarity) \o <<").">>],
           <<"find_best_template">>)

\* the last branch of query: no LLM
query_no_match(question, m) ==
    Return([question |-> question,
            method |-> "no_match",
            template_used |-> <<m.key>>,
            similarity |-> m.similarity,
            answer |-> <<"No good template match (similarity: ">>
                       \o Fmt3f(m.similarity) \o <<"). ">> \o Guidance],
           <<"find_best_template">>)

\* the comparison written strictly: similarity > similarity_threshold
MeetsThresholdStrict(similarity, similarity_threshold) ==
    similarity > similarity_threshold

\* the comparison written the wrong way round: similarity <= similarity_threshold
MeetsThresholdReversed(similarity, similarity_threshold) ==
    similarity <= similarity_threshold

\* similarity >= similarity_threshold
MeetsThreshold(similarity, similarity_threshold) ==
    similarity >= similarity_threshold

\* the test written the wrong way round: if not self.llm
LlmConfiguredInverted == llm = "None"

\* if self.llm:
LlmConfigured == llm # "None"

\* list_available_queries()
list_available_queries == Keys(query_templates)

\* query asking the LLM whenever there is one, whatever the similarity
query_llm_first(question, similarity_threshold, generated, store) ==
    LET m == find_best_template(question)
    IN  IF LlmConfigured
        THEN query_llm(question, m, generated, store)
        ELSE IF MeetsThreshold(m.similarity, similarity_threshold)
        THEN query_template(question, m, store)
        ELSE query_no_match(question, m)

\* query comparing with the default threshold instead of the caller's
query_ignoring_threshold(question, similarity_threshold, generated, store) ==
    LET m == find_best_template(question)
    IN  IF MeetsThreshold(m.similarity, DefaultThreshold)
        THEN query_template(question, m, store)
        ELSE IF LlmConfigured
        THEN query_llm(question, m, generated, store)
        ELSE query_no_match(question, m)

\* query(question, similarity_threshold)
query(question, similarity_threshold, generated, store) ==
    LET m == find_best_template(question)
    IN  IF MeetsThreshold(m.similarity, similarity_threshold)
        THEN query_template(question, m, store)
        ELSE IF LlmConfigured
        THEN query_llm(question, m, generated, store)
        ELSE query_no_match(question, m)

-----------------------------------------------------------------------------
(* The state machine *)

\* the questions asked of query: a template's own key (similarity 1.000 to
\* it), a word two templates share (0.707 to both), a question half about a
\* known topic (0.500) and one about an unknown topic (0.000)
Questions ==
    { <<"who are the stakeholders">>,
      <<"stakeholders">>,
      <<"who is involved in the budget">>,
      <<"compute the weighted average of all quarterly risk scores">> }

\* the thresholds callers pass, in thousandths
Thresholds == {300, DefaultThreshold, 800}

NoResponse == [raised |-> FALSE, exc |-> <<>>, val |-> [method |-> "none"]]

\* the request threads app.run(threaded=True) serves with; Idle: not in query
Threads == 1..NumThreads

\* a request thread of the web application that serves no request: the route
\* it serves, where it is in the route's code, the message of a chat request,
\* the HTTP status of the reply, the events its stream has yielded, its steps
\* in order (events by type, and the call of rag_system.query), response_data
\* (<<>> until query has returned or raised), and (for the record) the value
\* of rag_system when the request arrived and when the stream read it
Waiting ==
    [pc |-> "idle", route |-> "none", message |-> <<>>, status |-> 0,
     events |-> <<>>, trace |-> <<>>, response_data |-> <<>>,
     at_arrival |-> <<>>, at_check |-> <<>>]

\* a thread's locals: where it is in query, the question, the match, the
\* services' replies to it, what query returns, and (for the record) the
\* threads that were inside query when it entered
Idle ==
    [pc |-> "idle", question |-> <<>>, m |-> <<>>, generated |-> <<>>,
     store |-> <<>>, out |-> <<>>, beside |-> {}]

Init ==
    /\ neo4j_available \in BOOLEAN
    /\ llm \in {"OllamaLLM", "None"}
    /\ query_templates = SetupQueryTemplates
    /\ template_keys = SetupTemplateKeys(SetupQueryTemplates)
    /\ template_embeddings = SetupEmbeddings(SetupQueryTemplates)
    /\ storeUp \in (IF neo4j_available THEN {TRUE} ELSE BOOLEAN)
    /\ request = <<>>
    /\ response = NoResponse
    /\ calls = <<>>
    /\ earlier = <<>>
    /\ history = <<>>
    /\ threads = [t \in Threads |-> Idle]
    /\ RAG_AVAILABLE = TRUE
    /\ rag_system = <<1>>
    /\ instances = 1
    /\ workers = [t \in Threads |-> Waiting]
    /\ arrivals = 0

\* one call of query; the caller's record is left to the caller
Query(question, similarity_threshold, generated, choice) ==
    LET out == query(question, similarity_threshold, generated,
                     [up |-> storeUp, choice |-> choice])
    IN  /\ request' = <<[question |-> question,
                         similarity_threshold |-> similarity_threshold]>>
        /\ response' = [raised |-> out.raised, exc |-> out.exc, val |-> out.val]
        /\ calls' = out.calls
        /\ earlier' = IF request # <<>> /\ request[1].question = question
                      THEN <<[similarity_threshold |-> request[1].similarity_threshold,
                              raised |-> response.raised,
                              method |-> IF response.raised THEN "none"
                                         ELSE response.val.method]>>
                      ELSE <<>>
        /\ UNCHANGED webVars
        /\ UNCHANGED <<neo4j_available, llm, query_templates, template_keys,
                       template_embeddings, storeUp, threads>>

\* the graph store stops accepting sessions
StoreFails ==
    /\ storeUp
    /\ storeUp' = FALSE
    /\ UNCHANGED webVars
    /\ UNCHANGED <<neo4j_available, llm, query_templates, template_keys,
                   template_embeddings, request, response, calls, earlier,
                   history, threads>>

\* the graph store accepts sessions again
StoreRecovers ==
    /\ ~storeUp
    /\ storeUp' = TRUE
    /\ UNCHANGED webVars
    /\ UNCHANGED <<neo4j_available, llm, query_templates, template_keys,
                   template_embeddings, request, response, calls, earlier,
                   history, threads>>

\* The replies of a service are drawn only for a call that reaches it: a call
\* that never invokes the LLM is given the first of LlmReplies, one that gets
\* no answer of the store's choosing the empty answer.
GeneratedDrawn(question, similarity_threshold) ==
    IF ~MeetsThreshold(find_best_template(question).similarity, similarity_threshold)
       /\ LlmConfigured
    THEN LlmReplies ELSE {Return(GeneratedCypher, <<>>)}

ChoicesDrawn(question, similarity_threshold, generated) ==
    LET m == find_best_template(question)
        template_path == MeetsThreshold(m.similarity, similarity_threshold)
        cypher == IF template_path THEN m.template.cypher ELSE Strip(generated.val)
    IN  IF /\ template_path \/ (LlmConfigured /\ ~generated.raised)
           /\ neo4j_available /\ storeUp /\ WellFormed(cypher)
        THEN StoreChoices ELSE {Return(<<>>, <<>>)}

Next ==
    \/ \E question \in Questions, similarity_threshold \in Thresholds :
          \E generated \in GeneratedDrawn(question, similarity_threshold) :
             \E choice \in ChoicesDrawn(question, similarity_threshold, generated) :
                /\ Query(question, similarity_threshold, generated, choice)
                /\ UNCHANGED history
    \/ StoreFails
    \/ StoreRecovers

Spec == Init /\ [][Next]_vars

-----------------------------------------------------------------------------
(* A caller that keeps a record of its calls, and the services' replies *)

\* result = rag.query(question, similarity_threshold), noted by the caller
\* with what the services replied while it ran
CallQuery(question, similarity_threshold, generated, choice) ==
    /\ Query(question, similarity_threshold, generated, choice)
    /\ history' = Append(history,
                         [op |-> "query",
                          arg |-> question,
                          similarity_threshold |-> similarity_threshold,
                          generated |-> generated,
                          choice |-> choice,
                          up |-> storeUp,
                          raised |-> response'.raised,
                          val |-> response'.val,
                          calls |-> calls'])

\* a find_best_template that puts the key list in another order as it runs
CallFindBestTemplateReordering(question) ==
    /\ history' = Append(history,
                         [op |-> "find_best_template",
                          arg |-> question,
                          val |-> find_best_template(question),
                          calls |-> <<"embedding_model.encode", "cosine_similarity",
                                      "np.argmax">>])
    /\ template_keys' = SetupTemplateKeysReversed(query_templates)
    /\ UNCHANGED webVars
    /\ UNCHANGED <<neo4j_available, llm, query_templates,
                   template_embeddings, storeUp, request, response, calls,
                   earlier, threads>>

\* key, similarity, template = rag.find_best_template(question), noted by the
\* caller with the calls it made
CallFindBestTemplate(question) ==
    /\ history' = Append(history,
                         [op |-> "find_best_template",
                          arg |-> question,
                          val |-> find_best_template(question),
                          calls |-> <<"embedding_model.encode", "cosine_similarity",
                                      "np.argmax">>])
    /\ UNCHANGED webVars
    /\ UNCHANGED <<neo4j_available, llm, query_templates, template_keys,
                   template_embeddings, storeUp, request, response, calls,
                   earlier, threads>>

\* results = rag.execute_cypher(cypher), noted by the caller
CallExecuteCypher(cypher, choice) ==
    LET out == execute_cypher(cypher, [up |-> storeUp, choice |-> choice])
    IN  /\ history' = Append(history,
                             [op |-> "execute_cypher",
                              arg |-> cypher,
                              choice |-> choice,
                              up |-> storeUp,
                              raised |-> out.raised,
                              val |-> out.val,
                              calls |-> out.calls])
        /\ UNCHANGED webVars
        /\ UNCHANGED <<neo4j_available, llm, query_templates, template_keys,
                       template_embeddings, storeUp, request, response, calls,
                       earlier, threads>>

\* keys = rag.list_available_queries(), noted by the caller
CallListAvailableQueries ==
    /\ history' = Append(history,
                         [op |-> "list_available_queries",
                          arg |-> <<>>,
                          val |-> list_available_queries,
                          calls |-> <<>>])
    /\ UNCHANGED webVars
    /\ UNCHANGED <<neo4j_available, llm, query_templates, template_keys,
                   template_embeddings, storeUp, request, response, calls,
                   earlier, threads>>

\* the latest call of the record
Latest == history[Len(history)]

-----------------------------------------------------------------------------
(* The matcher on the catalog's own texts *)

\* the questions of Questions and, for every catalog key, key + " " + description
MatchQuestions ==
    Questions \cup {TemplateText(SetupQueryTemplates, SetupQueryTemplates[i].key) :
                       i \in 1..Len(SetupQueryTemplates)}

\* one call on a new instance: find_best_template, or query with the default
\* threshold
NextMatch ==
    \/ \E question \in MatchQuestions :
          /\ history = <<>>
          /\ CallFindBestTemplate(question)
    \/ \E question \in MatchQuestions :
          \E generated \in GeneratedDrawn(question, DefaultThreshold) :
             \E choice \in ChoicesDrawn(question, DefaultThreshold, generated) :
                /\ history = <<>>
                /\ CallQuery(question, DefaultThreshold, generated, choice)

SpecMatch == Init /\ [][NextMatch]_vars

-----------------------------------------------------------------------------
(* Sequences of calls of the four public methods *)

\* a question two templates match equally and one no template matches
CallsQuestions ==
    { <<"stakeholders">>,
      <<"compute the weighted average of all quarterly risk scores">> }

\* the generation service answers with a query or raises
CallsLlmReplies ==
    { Return(GeneratedCypher, <<>>),
      Raise(<<"[Errno 111] Connection refused">>, <<>>) }

\* the store answers with one row or raises
CallsStoreChoices ==
    { Return(<< << <<"n.name", StrVal(<<"Alice">>)>> >> >>, <<>>),
      Raise(TransientError, <<>>) }

\* a query text of the catalog and one the store cannot parse
CallsCyphers == { Catalog[1].cypher, <<"MATCH (n">> }

\* up to MaxHistory calls of query, find_best_template, execute_cypher and
\* list_available_queries, in any order
NextCalls ==
    \/ \E question \in CallsQuestions :
          \E generated \in GeneratedDrawn(question, DefaultThreshold) \cap CallsLlmReplies :
             \E choice \in IF ChoicesDrawn(question, DefaultThreshold, generated) = StoreChoices
                            THEN CallsStoreChoices ELSE {Return(<<>>, <<>>)} :
                /\ Len(history) < MaxHistory
                /\ CallQuery(question, DefaultThreshold, generated, choice)
    \/ \E question \in CallsQuestions :
          /\ Len(history) < MaxHistory
          /\ CallFindBestTemplate(question)
    \/ \E cypher \in CallsCyphers :
          \E choice \in IF neo4j_available /\ storeUp /\ WellFormed(cypher)
                         THEN CallsStoreChoices ELSE {Return(<<>>, <<>>)} :
             /\ Len(history) < MaxHistory
             /\ CallExecuteCypher(cypher, choice)
    \/ /\ Len(history) < MaxHistory
       /\ CallListAvailableQueries

SpecCalls == Init /\ [][NextCalls]_vars

-----------------------------------------------------------------------------
(* Request threads of the web server, each running query on the one instance *)

\* the threads inside query
InQuery == {u \in Threads : threads[u].pc \notin {"idle", "answered"}}

\* locals for a service the call never reaches
NotGenerated == Return(GeneratedCypher, <<>>)

NotExecuted == [up |-> FALSE, choice |-> Return(<<>>, <<>>)]

\* response_data = rag_system.query(message): the call is entered
T_Receive(t, question) ==
    /\ threads[t].pc = "idle"
    /\ threads' = [threads EXCEPT ![t] =
                      [Idle EXCEPT !.pc = "received", !.question = question,
                                   !.generated = NotGenerated,
                                   !.store = NotExecuted,
                                   !.beside = InQuery]]
    /\ UNCHANGED webVars
    /\ UNCHANGED <<neo4j_available, llm, query_templates, template_keys,
                   template_embeddings, storeUp, request, response, calls,
                   earlier, history>>

\* a matching step that keeps the match in a field of the instance, where
\* the other threads inside query find it in place of their own
T_MatchShared(t) ==
    /\ threads[t].pc = "received"
    /\ threads' = [u \in Threads |->
                      IF u = t
                      THEN [threads[t] EXCEPT
                               !.pc = "matched",
                               !.m = find_best_template(threads[t].question)]
                      ELSE IF threads[u].pc = "matched"
                      THEN [threads[u] EXCEPT
                               !.m = find_best_template(threads[t].question)]
                      ELSE threads[u]]
    /\ UNCHANGED webVars
    /\ UNCHANGED <<neo4j_available, llm, query_templates, template_keys,
                   template_embeddings, storeUp, request, response, calls,
                   earlier, history>>

\* template_key, similarity, template = self.find_best_template(question)
T_Match(t) ==
    /\ threads[t].pc = "received"
    /\ threads' = [threads EXCEPT ![t] =
                      [threads[t] EXCEPT
                          !.pc = "matched",
                          !.m = find_best_template(threads[t].question)]]
    /\ UNCHANGED webVars
    /\ UNCHANGED <<neo4j_available, llm, query_templates, template_keys,
                   template_embeddings, storeUp, request, response, calls,
                   earlier, history>>

\* the template branch: execute_cypher, the answer, return
T_Template(t, choice) ==
    LET store == [up |-> storeUp, choice |-> choice]
    IN  /\ threads[t].pc = "matched"
        /\ MeetsThreshold(threads[t].m.similarity, DefaultThreshold)
        /\ threads' = [threads EXCEPT ![t] =
                          [threads[t] EXCEPT
                              !.pc = "answered",
                              !.store = store,
                              !.out = query_template(threads[t].question,
                                                     threads[t].m, store)]]
        /\ UNCHANGED webVars
        /\ UNCHANGED <<neo4j_available, llm, query_templates, template_keys,
                       template_embeddings, storeUp, request, response, calls,
                       earlier, history>>

\* the LLM branch up to cypher = self.llm.invoke(llm_prompt).strip(); a call
\* that raises is answered by the except branch at once
T_Generate(t, generated) ==
    /\ threads[t].pc = "matched"
    /\ ~MeetsThreshold(threads[t].m.similarity, DefaultThreshold)
    /\ LlmConfigured
    /\ threads' = [threads EXCEPT ![t] =
                      IF generated.raised
                      THEN [threads[t] EXCEPT
                               !.pc = "answered",
                               !.generated = generated,
                               !.out = query_llm(threads[t].question, threads[t].m,
                                                 generated, NotExecuted)]
                      ELSE [threads[t] EXCEPT
                               !.pc = "generated",
                               !.generated = generated]]
    /\ UNCHANGED webVars
    /\ UNCHANGED <<neo4j_available, llm, query_templates, template_keys,
                   template_embeddings, storeUp, request, response, calls,
                   earlier, history>>

\* the LLM branch from results = self.execute_cypher(cypher) to its return
T_Execute(t, choice) ==
    LET store == [up |-> storeUp, choice |-> choice]
    IN  /\ threads[t].pc = "generated"
        /\ threads' = [threads EXCEPT ![t] =
                          [threads[t] EXCEPT
                              !.pc = "answered",
                              !.store = store,
                              !.out = query_llm(threads[t].question, threads[t].m,
                                                threads[t].generated, store)]]
        /\ UNCHANGED webVars
        /\ UNCHANGED <<neo4j_available, llm, query_templates, template_keys,
                       template_embeddings, storeUp, request, response, calls,
                       earlier, history>>

\* the last branch: no LLM
T_NoMatch(t) ==
    /\ threads[t].pc = "matched"
    /\ ~MeetsThreshold(threads[t].m.similarity, DefaultThreshold)
    /\ ~LlmConfigured
    /\ threads' = [threads EXCEPT ![t] =
                      [threads[t] EXCEPT
                          !.pc = "answered",
                          !.out = query_no_match(threads[t].question, threads[t].m)]]
    /\ UNCHANGED webVars
    /\ UNCHANGED <<neo4j_available, llm, query_templates, template_keys,
                   template_embeddings, storeUp, request, response, calls,
                   earlier, history>>

\* the store's answers to a thread: of its choosing only when it is reached
\* and can parse the query
ThreadChoices(cypher) ==
    IF neo4j_available /\ storeUp /\ WellFormed(cypher)
    THEN CallsStoreChoices ELSE {Return(<<>>, <<>>)}

NextThreads ==
    \/ \E t \in Threads, question \in CallsQuestions : T_Receive(t, question)
    \/ \E t \in Threads : T_Match(t)
    \/ \E t \in Threads :
          /\ threads[t].pc = "matched"
          /\ \E choice \in ThreadChoices(threads[t].m.template.cypher) :
                T_Template(t, choice)
    \/ \E t \in Threads, generated \in CallsLlmReplies : T_Generate(t, generated)
    \/ \E t \in Threads :
          /\ threads[t].pc = "generated"
          /\ \E choice \in ThreadChoices(Strip(threads[t].generated.val)) :
                T_Execute(t, choice)
    \/ \E t \in Threads : T_NoMatch(t)
    \/ StoreFails
    \/ StoreRecovers

SpecThreads == Init /\ [][NextThreads]_vars

-----------------------------------------------------------------------------
(* Calls while the store goes down and comes back *)

\* the store answers with no rows, with one row, or raises
StoreReplies == CallsStoreChoices \cup {Return(<<>>, <<>>)}

\* the store's answer to a call: of its choosing only when it is asked and
\* can parse the query
StoreDrawn(cypher) ==
    IF neo4j_available /\ storeUp /\ WellFormed(cypher)
    THEN StoreReplies ELSE {Return(<<>>, <<>>)}

\* up to MaxHistory calls of execute_cypher and of query, the store failing
\* and recovering between them
NextStore ==
    \/ \E cypher \in CallsCyphers :
          \E choice \in StoreDrawn(cypher) :
             /\ Len(history) < MaxHistory
             /\ CallExecuteCypher(cypher, choice)
    \/ \E question \in CallsQuestions :
          \E choice \in StoreDrawn(IF MeetsThreshold(find_best_template(question).similarity,
                                                     DefaultThreshold)
                                    THEN find_best_template(question).template.cypher
                                    ELSE IF LlmConfigured THEN GeneratedCypher
                                    ELSE <<>>) :
             /\ Len(history) < MaxHistory
             /\ CallQuery(question, DefaultThreshold, Return(GeneratedCypher, <<>>), choice)
    \/ StoreFails
    \/ StoreRecovers

SpecStore == Init /\ [][NextStore]_vars

-----------------------------------------------------------------------------
(* Store replies of several columns, and of a column named error *)

\* records of RETURN s.name, s.email: each value a string or null
TwoColumnRows ==
    { << <<"s.name", name>>, <<"s.email", email>> >> :
        name \in {StrVal(<<"Alice">>), None},
        email \in {StrVal(<<"alice@example.org">>), None} }

\* records of a query that returns a column named error
ErrorColumnRows ==
    { << <<"error", StrVal(<<"disk full">>)>> >>,
      << <<"error", StrVal(<<"timeout">>)>> >> }

RECURSIVE SeqsOver(_, _)
\* every sequence of exactly n rows of the given kinds
SeqsOver(kinds, n) ==
    IF n = 0 THEN {<<>>}
    ELSE {Append(rs, r) : rs \in SeqsOver(kinds, n - 1), r \in kinds}

\* replies of 1..MaxRows records, all of one query and so of the same columns
TableReplies ==
    { Return(rs, <<>>) :
        rs \in UNION { SeqsOver(TwoColumnRows, n) \cup SeqsOver(ErrorColumnRows, n) :
                          n \in 1..MaxRows } }

\* one call of query on a new instance, answered by the store with a table
NextRows ==
    \E question \in CallsQuestions, similarity_threshold \in Thresholds :
       \E choice \in IF ChoicesDrawn(question, similarity_threshold,
                                     Return(GeneratedCypher, <<>>)) = StoreChoices
                      THEN TableReplies ELSE {Return(<<>>, <<>>)} :
          /\ history = <<>>
          /\ CallQuery(question, similarity_threshold,
                       Return(GeneratedCypher, <<>>), choice)

SpecRows == Init /\ [][NextRows]_vars

-----------------------------------------------------------------------------
(* Store replies longer than the display cap *)

Letters == <<"a", "b", "c", "d", "e", "f", "g", "h", "i", "j", "k", "l", "m", "n">>

\* the i-th named row of the store, and a row whose name is null
NamedRow(i) == << <<"n.name", StrVal(<<Letters[i]>>)>> >>

NullRow == << <<"n.name", None>> >>

\* replies of DisplayCap rows or more: the named rows in ascending or in
\* descending order, at most one of them replaced by a null row
LongReplies ==
    { Return([i \in 1..n |-> IF i = k THEN NullRow
                             ELSE NamedRow(IF ascending THEN i ELSE n + 1 - i)],
             <<>>) :
        n \in DisplayCap..MaxLong, k \in 0..MaxLong, ascending \in BOOLEAN }

\* a long reply is drawn for a call that gets an answer of the store's choosing
LongDrawn(question, similarity_threshold, generated) ==
    IF ChoicesDrawn(question, similarity_threshold, generated) = StoreChoices
    THEN LongReplies ELSE {Return(<<>>, <<>>)}

\* one call of query on a new instance, answered by a store holding many rows
NextLong ==
    \E question \in Questions, similarity_threshold \in Thresholds :
       \E generated \in GeneratedDrawn(question, similarity_threshold) :
          \E choice \in LongDrawn(question, similarity_threshold, generated) :
             /\ history = <<>>
             /\ CallQuery(question, similarity_threshold, generated, choice)

SpecLong == Init /\ [][NextLong]_vars

-----------------------------------------------------------------------------
(* Vocabulary of the properties *)

\* a query call has ended
Answered == request # <<>>

\* ... by returning a response
Returned == Answered /\ ~response.raised

Made(call) == \E i \in 1..Len(calls) : calls[i] = call

\* similarity of a question to the i-th catalog entry, from the catalog itself
SimilarityTo(question, i) ==
    CosineTable[<<Encode(question),
                  Encode(<<Catalog[i].key, " ", Catalog[i].description>>)>>]

\* the largest similarity of a question to any of the catalog's entries
BestSimilarity(question) ==
    CHOOSE s \in {SimilarityTo(question, i) : i \in 1..NumTemplates} :
        \A i \in 1..NumTemplates : SimilarityTo(question, i) <= s

\* the earliest catalog index at that similarity
BestIndex(question) ==
    CHOOSE i \in 1..NumTemplates :
        /\ SimilarityTo(question, i) = BestSimilarity(question)
        /\ \A j \in 1..(i - 1) : SimilarityTo(question, j) # BestSimilarity(question)

\* the call was routed below the threshold
BelowThreshold ==
    Answered /\ BestSimilarity(request[1].question) < request[1].similarity_threshold

\* the store was asked to run a query and the run failed, or the instance has
\* no store to ask
ExecutionFailed ==
    Returned /\ (Made("session.run raised")
                 \/ (Made("execute_cypher") /\ ~neo4j_available))

\* the messages a failing store gives
BackendMessages == {Unreachable, SyntaxError, TransientError}

-----------------------------------------------------------------------------
(* C1 *)

\* C1: a query call takes the template path exactly when the best similarity
\* of its question reaches its threshold (the boundary included); on that path
\* the response has method "template", names the best-matching catalog key and
\* carries that template's stored query text unchanged.
C1_TemplatePathIffThreshold ==
    Returned =>
        LET q == request[1].question
            t == request[1].similarity_threshold
            best == Catalog[BestIndex(q)]
        IN  /\ (response.val.method = "template") <=> (BestSimilarity(q) >= t)
            /\ (BestSimilarity(q) >= t) <=> (Made("execute_cypher") /\ ~Made("llm.invoke"))
            /\ response.val.method = "template" =>
                  /\ response.val.template_used = <<best.key>>
                  /\ response.val.cypher = best.cypher
                  /\ response.val.similarity = BestSimilarity(q)

\* a call whose best similarity equals its threshold was answered from the template
C1_Witness ==
    /\ Returned
    /\ BestSimilarity(request[1].question) = request[1].similarity_threshold
    /\ request[1].similarity_threshold = DefaultThreshold
    /\ response.val.method = "template"

-----------------------------------------------------------------------------
(* C2 *)

\* C2: of two calls with the same question, the one with the lower (or equal)
\* threshold takes the template path whenever the one with the higher
\* threshold does, and the one with the higher threshold takes the fallback
\* path whenever the one with the lower threshold does.
C2_ThresholdMonotone ==
    (Answered /\ earlier # <<>>) =>
        LET t_now == request[1].similarity_threshold
            t_before == earlier[1].similarity_threshold
            template_now == Returned /\ response.val.method = "template"
            template_before == ~earlier[1].raised /\ earlier[1].method = "template"
        IN  /\ (t_before <= t_now /\ template_now) => template_before
            /\ (t_now <= t_before /\ template_before) => template_now
            /\ (t_before <= t_now /\ ~template_before) => ~template_now
            /\ (t_now <= t_before /\ ~template_now) => ~template_before

\* the same question went down the template path at a lower threshold and
\* down the fallback path at a higher one
C2_Witness ==
    /\ Returned
    /\ earlier # <<>>
    /\ earlier[1].similarity_threshold < request[1].similarity_threshold
    /\ earlier[1].method = "template"
    /\ response.val.method # "template"

-----------------------------------------------------------------------------
(* C3 *)

\* C3: whatever the store and the generation service do, a query call ends by
\* returning a response that carries a non-empty answer string; no exception
\* of the store or of the generator leaves query.
C3_AlwaysStructuredResponse ==
    Answered =>
        /\ ~response.raised
        /\ "answer" \in DOMAIN response.val
        /\ "method" \in DOMAIN response.val
        /\ response.val.answer # <<>>

\* a call during which the store's run raised has returned an answer
C3_Witness ==
    /\ Returned
    /\ Made("session.run raised")
    /\ response.val.answer # <<>>

-----------------------------------------------------------------------------
(* C4 *)

\* C4 (as claimed): whenever the execution of the query fails, on the template
\* path or on the fallback path, the response has method "error".
C4_ExecutionFailureIsMethodError ==
    ExecutionFailed => response.val.method = "error"

-----------------------------------------------------------------------------
(* C5 *)

\* C5 (as claimed): whenever the execution of the query fails, on either path,
\* the answer contains the text of the store's error message.
C5_AnswerContainsBackendMessage ==
    ExecutionFailed =>
        /\ \A msg \in BackendMessages :
              response.val.results = <<ErrorRow(<<"Query execution failed: ">> \o msg)>>
                  => Contains(response.val.answer, msg)
        /\ ~neo4j_available =>
              Contains(response.val.answer, <<"Neo4j not available">>)

-----------------------------------------------------------------------------
(* C6 *)

\* a below-threshold call on an instance with an LLM, whose generation did not
\* raise: the call was answered through the generation service
AnsweredByGeneration ==
    Returned /\ BelowThreshold /\ llm # "None" /\ ~Made("llm.invoke raised")

\* C6 (as claimed): the method of every response is one of template,
\* fallback_generated, no_match, error, and a below-threshold question answered
\* through the generation service reports fallback_generated.
C6_MethodsAsClaimed ==
    Returned =>
        /\ response.val.method \in {"template", "fallback_generated", "no_match", "error"}
        /\ AnsweredByGeneration => response.val.method = "fallback_generated"

\* C6 (amended): the method of every response is one of template,
\* llm_fallback, no_match, error, and a below-threshold question answered
\* through the generation service reports llm_fallback.
C6_Methods ==
    Returned =>
        /\ response.val.method \in {"template", "llm_fallback", "no_match", "error"}
        /\ AnsweredByGeneration => response.val.method = "llm_fallback"

\* a below-threshold question was answered through the generation service
C6_Witness ==
    /\ AnsweredByGeneration
    /\ Made("session.run")
    /\ response.val.method = "llm_fallback"

-----------------------------------------------------------------------------
(* C7 *)

\* the call was routed below the threshold on an instance without an LLM
BelowThresholdNoLlm == Answered /\ BelowThreshold /\ llm = "None"

-----------------------------------------------------------------------------
(* C8 *)

\* the generation service raised during a below-threshold call
GenerationRaised == Answered /\ BelowThreshold /\ Made("llm.invoke raised")

-----------------------------------------------------------------------------
(* C9 *)

Apology == <<"Sorry, I couldn't process your question.">>

\* C9 (as claimed): when the generation service raises or is not configured,
\* the response is a no_match response whose answer is the advice, in both
\* cases.
C9_RecoveryAsClaimed ==
    (GenerationRaised \/ BelowThresholdNoLlm) =>
        /\ Returned
        /\ response.val.method = "no_match"
        /\ Contains(response.val.answer, Guidance)

\* C9 (amended): when the generation service is not configured the response
\* is a no_match response whose answer carries the advice; when it raises the
\* response has method error, the answer "Sorry, I couldn't process your
\* question." and an error field with the exception text.
C9_Recovery ==
    /\ BelowThresholdNoLlm =>
          /\ Returned
          /\ response.val.method = "no_match"
          /\ Contains(response.val.answer, Guidance)
    /\ GenerationRaised =>
          /\ Returned
          /\ response.val.method = "error"
          /\ response.val.answer = Apology
          /\ \E r \in LlmReplies :
                r.raised /\ response.val.error = <<"LLM fallback failed: ">> \o r.exc

\* the generation service raised and the caller got the apology
C9_Witness ==
    /\ GenerationRaised
    /\ Returned
    /\ response.val.answer = Apology

-----------------------------------------------------------------------------
(* C10 *)

\* the store ran the query and returned no rows
RanWithNoRows == Returned /\ Made("session.run") /\ response.val.results = <<>>

\* C10 (as claimed): whenever the query runs and returns no rows, on the
\* template path or on the fallback path, the answer is exactly
\* "No results found." and the method is that of the path taken.
C10_EmptyResultAnswer ==
    RanWithNoRows =>
        /\ response.val.answer = <<"No results found.">>
        /\ response.val.method = IF BelowThreshold THEN "llm_fallback" ELSE "template"

-----------------------------------------------------------------------------
(* C11 *)

\* the keys of the dict query returns on its template and LLM branches
FullFields ==
    {"question", "method", "template_used", "similarity", "cypher", "results",
     "answer", "execution_time"}

-----------------------------------------------------------------------------
(* C12 *)

\* the latest call is a query the store answered with n > DisplayCap rows
\* and no error
LongResult ==
    /\ history # <<>>
    /\ Latest.op = "query"
    /\ ~Latest.raised
    /\ \E i \in 1..Len(Latest.calls) : Latest.calls[i] = "session.run"
    /\ Len(Latest.choice.val) > DisplayCap

\* the name in the i-th row of a reply, <<>> when it is null
NameIn(rows, i) ==
    IF rows[i][1][2] = None THEN <<>> ELSE rows[i][1][2][2]

-----------------------------------------------------------------------------
(* C13 *)

\* the latest call is find_best_template
Matched == history # <<>> /\ Latest.op = "find_best_template"

\* C13: find_best_template returns the key of a template whose similarity to
\* the question is the largest over the catalog, with that similarity; of
\* several templates at the largest similarity it returns the earliest in
\* the catalog's insertion order.
C13_BestMatch ==
    Matched =>
        /\ Latest.val.similarity = BestSimilarity(Latest.arg)
        /\ Latest.val.key = Catalog[BestIndex(Latest.arg)].key

\* a question as similar to the first template as to the second was matched
\* to the first
C13_Witness ==
    /\ Matched
    /\ SimilarityTo(Latest.arg, 1) = SimilarityTo(Latest.arg, 2)
    /\ SimilarityTo(Latest.arg, 1) = BestSimilarity(Latest.arg)
    /\ Latest.val.key = Catalog[1].key

-----------------------------------------------------------------------------
(* C14 *)

\* C14: in every state the key list and the embedding index have one entry
\* per catalog template, the i-th key is the i-th catalog key and the i-th
\* embedding is the embedding of that key, a blank and that template's
\* description; and the key find_best_template returns is a catalog key, the
\* template it returns being the catalog's entry for it.
C14_PositionalIntegrity ==
    /\ Len(template_keys) = Len(query_templates)
    /\ Len(template_embeddings) = Len(query_templates)
    /\ \A i \in 1..Len(query_templates) :
          /\ template_keys[i] = query_templates[i].key
          /\ template_embeddings[i] =
                Encode(<<query_templates[i].key, " ", query_templates[i].description>>)
    /\ Matched =>
          \E i \in 1..Len(query_templates) :
             /\ query_templates[i].key = Latest.val.key
             /\ query_templates[i] = Latest.val.template

\* find_best_template returned the last key of the catalog with its template
C14_Witness ==
    /\ Matched
    /\ Latest.val.key = query_templates[Len(query_templates)].key
    /\ Latest.val.template = query_templates[Len(query_templates)]

-----------------------------------------------------------------------------
(* C17 *)

\* key + " " + description of the i-th catalog entry
SelfText(i) == <<Catalog[i].key, " ", Catalog[i].description>>

\* C17: for every catalog entry, find_best_template on the text made of its
\* key, a blank and its description returns that key with a similarity above
\* the default threshold, and query with the default threshold answers that
\* text with method template and that key.
C17_CatalogCoverage ==
    \A i \in 1..NumTemplates :
        (history # <<>> /\ Latest.arg = SelfText(i)) =>
            /\ Latest.op = "find_best_template" =>
                  /\ Latest.val.key = Catalog[i].key
                  /\ Latest.val.similarity > DefaultThreshold
            /\ (Latest.op = "query"
                 /\ Latest.similarity_threshold = DefaultThreshold) =>
                  /\ ~Latest.raised
                  /\ Latest.val.method = "template"
                  /\ Latest.val.template_used = <<Catalog[i].key>>

\* query answered the last catalog entry's own text on the template path
C17_Witness ==
    /\ history # <<>>
    /\ Latest.op = "query"
    /\ Latest.arg = SelfText(NumTemplates)
    /\ Latest.val.method = "template"
    /\ Latest.val.template_used = <<Catalog[NumTemplates].key>>

-----------------------------------------------------------------------------
(* C15 *)

\* the call made no use of the store
NoStoreCall(event) ==
    \A i \in 1..Len(event.calls) :
        event.calls[i] \notin {"execute_cypher", "session.run", "session.run raised"}

\* C15: no call of query, find_best_template, execute_cypher or
\* list_available_queries, whether it succeeds or fails, changes the
\* template catalog, the key list or the embedding index, and no call of
\* find_best_template executes a query against the store.
C15_CatalogReadOnly ==
    [][/\ UNCHANGED <<query_templates, template_keys, template_embeddings>>
       /\ \A i \in 1..Len(history') :
             history'[i].op = "find_best_template" => NoStoreCall(history'[i])]_vars

\* a query whose execution failed, a find_best_template and an
\* execute_cypher that failed were made, and the catalog, the key list and
\* the index are those of construction
C15_Witness ==
    /\ Len(history) = 3
    /\ history[1].op = "query" /\ ~NoStoreCall(history[1])
    /\ AnyError(history[1].val.results)
    /\ history[2].op = "find_best_template"
    /\ history[3].op = "execute_cypher" /\ AnyError(history[3].val)
    /\ query_templates = SetupQueryTemplates
    /\ template_keys = SetupTemplateKeys(SetupQueryTemplates)
    /\ template_embeddings = SetupEmbeddings(SetupQueryTemplates)

-----------------------------------------------------------------------------
(* C16 *)

-----------------------------------------------------------------------------
(* C18 *)

\* the positions of the call's trace holding one of the given calls
Positions(made) == {i \in 1..Len(calls) : calls[i] \in made}

Matching == Positions({"find_best_template"})

Generation == Positions({"llm.invoke", "llm.invoke raised"})

Execution == Positions({"execute_cypher"})

\* C18: in every query call the best match is computed first and once,
\* before any generation or execution; a call at or above the threshold
\* (template path) executes a query, never calls the generation service and
\* is the only kind answered with method template; a call below the threshold
\* (fallback path) executes a query only after a generation call that
\* returned, and not at all when the generation call raised or when there is
\* no generation service.
C18_StageOrder ==
    Answered =>
        /\ Matching = {1}
        /\ \A i \in Generation \cup Execution : i > 1
        /\ ~BelowThreshold =>
              /\ Generation = {}
              /\ Execution # {}
              /\ Returned /\ response.val.method = "template"
        /\ BelowThreshold =>
              /\ Returned /\ response.val.method # "template"
              /\ \A j \in Execution :
                    \E i \in Positions({"llm.invoke"}) : i < j
              /\ Made("llm.invoke raised") => Execution = {}
              /\ ~LlmConfigured => Generation \cup Execution = {}

\* a call below the threshold matched, then generated, then executed
C18_Witness ==
    /\ Returned
    /\ BelowThreshold
    /\ calls = <<"find_best_template", "llm.invoke", "execute_cypher", "session.run">>

-----------------------------------------------------------------------------
(* C19 *)

\* C19: during one query call the store is asked to run at most one query
\* and the generation service is invoked at most once, whether those calls
\* succeed or fail.
C19_NoRetries ==
    Answered =>
        /\ Cardinality(Execution) <= 1
        /\ Cardinality(Positions({"session.run", "session.run raised"})) <= 1
        /\ Cardinality(Generation) <= 1

\* the generation service was invoked once and the run of its query failed
C19_Witness ==
    /\ Returned
    /\ Cardinality(Generation) = 1
    /\ Cardinality(Positions({"session.run raised"})) = 1

-----------------------------------------------------------------------------
(* C20 *)

\* the response the thread's call produces when it runs alone, with the
\* same question, the default threshold and the same replies of the services
Alone(t) ==
    query(threads[t].question, DefaultThreshold, threads[t].generated,
          threads[t].store)

\* C20: under every interleaving of the threads' steps, the response of each
\* query call is the one the call produces when run alone with the same
\* question, threshold and replies of the generation service and the store;
\* and no step of a thread writes the availability flag, the LLM handle, the
\* catalog, the key list or the embedding index, which the threads share.
C20_Isolation ==
    /\ [](\A t \in Threads :
             threads[t].pc = "answered" => threads[t].out = Alone(t))
    /\ [][UNCHANGED <<neo4j_available, llm, query_templates, template_keys,
                      template_embeddings>>]_vars

\* two calls overlapped, with different questions, and were answered one on
\* the template branch and one not
C20_Witness ==
    /\ threads[1].pc = "answered"
    /\ threads[2].pc = "answered"
    /\ threads[2].beside = {1}
    /\ threads[1].question # threads[2].question
    /\ threads[1].out.val.method = "template"
    /\ threads[2].out.val.method # "template"

-----------------------------------------------------------------------------
(* C29 *)

\* the response names a template: its template_used is there and not None
NamesTemplate ==
    /\ "template_used" \in DOMAIN response.val
    /\ response.val.template_used # <<>>

\* C29 (as claimed): a response names a template exactly when its method is
\* template; llm_fallback, no_match and error responses name none.
C29_ProvenanceConsistency ==
    Returned => (NamesTemplate <=> response.val.method = "template")

-----------------------------------------------------------------------------
(* C22 *)

\* the calls of execute_cypher in the caller's record
Executions == {i \in 1..Len(history) : history[i].op = "execute_cypher"}

NotAvailableRows == <<ErrorRow(<<"Neo4j not available">>)>>

\* C22: execute_cypher never raises; it returns no rows only when the store
\* ran the query and returned none; when the run succeeds it returns the
\* store's rows; when the instance has no store, or the store is unreachable,
\* rejects the query or fails while running it, it returns one row holding
\* an error text: "Neo4j not available", or "Query execution failed: " and
\* the store's message.
C22_FailureAsValue ==
    \A i \in Executions :
        LET e == history[i]
            ran == e.calls = <<"execute_cypher", "session.run">>
            failure == \/ ~neo4j_available
                       \/ ~e.up
                       \/ ~WellFormed(e.arg)
                       \/ e.choice.raised
            cause == IF ~e.up THEN Unreachable
                     ELSE IF ~WellFormed(e.arg) THEN SyntaxError
                     ELSE e.choice.exc
        IN  /\ ~e.raised
            /\ e.val = <<>> => (ran /\ ~failure /\ e.choice.val = <<>>)
            /\ ~failure => (ran /\ e.val = e.choice.val)
            /\ failure =>
                  /\ ~ran
                  /\ e.val = IF ~neo4j_available THEN NotAvailableRows
                             ELSE <<ErrorRow(<<"Query execution failed: ">> \o cause)>>

\* three calls on an instance with a store: it returned no rows, it
\* rejected the query, and it was unreachable
C22_Witness ==
    /\ neo4j_available
    /\ \E i \in Executions : history[i].val = <<>>
    /\ \E i \in Executions :
          history[i].val = <<ErrorRow(<<"Query execution failed: ">> \o SyntaxError)>>
    /\ \E i \in Executions :
          history[i].val = <<ErrorRow(<<"Query execution failed: ">> \o Unreachable)>>

-----------------------------------------------------------------------------
(* C28 *)

\* C28: neo4j_available never changes after construction; on an instance
\* built without a store, every execute_cypher call returns the one row
\* "Neo4j not available" without asking the store, and so does every query
\* call that executes a query, also while the store is reachable.
C28_AvailabilityFixed ==
    /\ [](~neo4j_available =>
             \A i \in 1..Len(history) :
                /\ history[i].calls \in {<<"find_best_template">>,
                                          <<"execute_cypher">>,
                                          <<"find_best_template", "execute_cypher">>,
                                          <<"find_best_template", "llm.invoke",
                                            "execute_cypher">>}
                /\ history[i].op = "execute_cypher" => history[i].val = NotAvailableRows
                /\ (history[i].op = "query" /\ ~NoStoreCall(history[i])) =>
                      history[i].val.results = NotAvailableRows)
    /\ [][neo4j_available' = neo4j_available]_vars

\* on an instance built without a store, a query while the store was down
\* and an execute_cypher and a query after it came up all got the one row
C28_Witness ==
    /\ ~neo4j_available
    /\ Len(history) = 3
    /\ history[1].op = "query" /\ ~history[1].up
    /\ history[1].val.method = "template"
    /\ history[1].val.results = NotAvailableRows
    /\ history[2].op = "execute_cypher" /\ history[2].up
    /\ history[2].val = NotAvailableRows
    /\ history[3].op = "query" /\ history[3].up
    /\ history[3].val.method = "llm_fallback"
    /\ history[3].val.results = NotAvailableRows

-----------------------------------------------------------------------------
(* C23 *)

\* the latest call is a query that executed a query and returned
Executed ==
    /\ history # <<>>
    /\ Latest.op = "query"
    /\ ~Latest.raised
    /\ "results" \in DOMAIN Latest.val

\* C23 (as claimed): whenever a row of the result, at any position, has an
\* error key, the answer contains that row's error text.
C23_EveryErrorSurfaced ==
    Executed =>
        \A i \in 1..Len(Latest.val.results) :
            HasKey(Latest.val.results[i], "error") =>
                Contains(Latest.val.answer,
                         PyStr(Get(Latest.val.results[i], "error", None)))

-----------------------------------------------------------------------------
(* C24 *)

\* str of the values of a row that are not None
Shown(row) ==
    LET vs == SelectSeq(Values(row), LAMBDA v : v # None)
    IN  [i \in 1..Len(vs) |-> PyStr(vs[i])]

\* the rows among the first DisplayCap that have a value to show
Displayed(results) ==
    SelectSeq(SubSeq(results, 1, IF Len(results) < DisplayCap
                                 THEN Len(results) ELSE DisplayCap),
              LAMBDA row : Shown(row) # <<>>)

\* the count prefix and the displayed rows, one per line, values joined by " | "
CountAndRows(results) ==
    <<"Found ">> \o StrNat(Len(results)) \o <<" result(s):", NL>>
    \o Join(<<NL>>, [i \in 1..Len(Displayed(results)) |->
                        Join(<<" | ">>, Shown(Displayed(results)[i]))])

\* the latest call is a query whose result has rows and no error key
Formatted == Executed /\ Latest.val.results # <<>> /\ ~AnyError(Latest.val.results)

\* C24 (as claimed): for every result with rows and no error key, the answer
\* is the total count followed by the joined values of the displayed rows,
\* also when rows hold null values or only null values.
C24_CountPrefixAsClaimed ==
    Formatted => Latest.val.answer = CountAndRows(Latest.val.results)

\* C24 (amended): for every result with rows and no error key, if some row
\* among the first 10 has a value that is not null, the answer is the total
\* count followed by one line per such row, made of its non-null values
\* joined by " | "; if every value of the first 10 rows is null, the answer is
\* "Results found but no displayable data." with no count.
C24_CountPrefix ==
    Formatted =>
        Latest.val.answer =
            IF Displayed(Latest.val.results) # <<>>
            THEN CountAndRows(Latest.val.results)
            ELSE <<"Results found but no displayable data.">>

\* a result of a row with one null value and a row of null values only was
\* answered with the count 2 and one line
C24_Witness ==
    /\ Formatted
    /\ Len(Latest.val.results) = 2
    /\ Len(Displayed(Latest.val.results)) = 1
    /\ Latest.val.answer = <<"Found ", "2", " result(s):", NL, "Alice">>

-----------------------------------------------------------------------------
(* C25 *)

\* the latest call is a query answered with a generated query
GeneratedAnswer ==
    /\ history # <<>>
    /\ Latest.op = "query"
    /\ ~Latest.raised
    /\ Latest.val.method = "llm_fallback"

\* C25 (as claimed): on the fallback path the query text reported in the
\* response, which is the one executed, is exactly the text the generation
\* service returned.
C25_VerbatimAsClaimed ==
    GeneratedAnswer => Latest.val.cypher = Latest.generated.val

\* C25 (amended): on the fallback path the query text reported in the
\* response is the generated text without its leading and trailing white
\* space and otherwise unchanged; that text is the one given to the store,
\* unvalidated: the store rejects it exactly when it cannot parse it, and
\* otherwise the result is the store's answer to it.
C25_Stripped ==
    GeneratedAnswer =>
        LET gen == Latest.generated.val
            cypher == Latest.val.cypher
            rejected == <<ErrorRow(<<"Query execution failed: ">> \o SyntaxError)>>
        IN  /\ \E i \in 1..(Len(gen) + 1), j \in 0..Len(gen) :
                  /\ cypher = SubSeq(gen, i, j)
                  /\ \A k \in 1..Len(gen) : (k < i \/ k > j) => gen[k] \in Whitespace
            /\ cypher # <<>> =>
                  (cypher[1] \notin Whitespace /\ cypher[Len(cypher)] \notin Whitespace)
            /\ (neo4j_available /\ Latest.up) =>
                  /\ Latest.val.results = rejected <=> ~WellFormed(cypher)
                  /\ (WellFormed(cypher) /\ ~Latest.choice.raised) =>
                        Latest.val.results = Latest.choice.val

\* the generation service returned a query between a blank and a line
\* break, and the store ran the query without them
C25_Witness ==
    /\ GeneratedAnswer
    /\ Latest.generated.val = <<" ">> \o Latest.val.cypher \o <<NL>>
    /\ Latest.calls = <<"find_best_template", "llm.invoke", "execute_cypher",
                        "session.run">>

-----------------------------------------------------------------------------
(* The web application: app.py *)

\* most requests the server receives
MaxArrivals == 2

\* f"{confidence:.2f}" of a number kept in thousandths, rounded to the nearest
\* hundredth
Fmt2f(c) ==
    LET h == (c + 5) \div 10
    IN  StrNat(h \div 100) \o <<".">>
        \o <<Digits[((h \div 10) % 10) + 1], Digits[(h % 10) + 1]>>

\* response_data.get(key, default) of a dict kept as a record
GetField(d, key, default) == IF key \in DOMAIN d THEN d[key] ELSE default

\* the first white space of s, or Len(s) + 1
FirstBlank(s) ==
    IF \E i \in 1..Len(s) : s[i] \in Whitespace
    THEN CHOOSE i \in 1..Len(s) :
            /\ s[i] \in Whitespace
            /\ \A k \in 1..(i - 1) : s[k] \notin Whitespace
    ELSE Len(s) + 1

RECURSIVE Split(_)
\* s.split(): the words of s, the pieces of text between white space; a piece
\* of text the model keeps whole is one word
Split(s) ==
    LET t == LStrip(s)
    IN  IF t = <<>> THEN <<>>
        ELSE <<SubSeq(t, 1, FirstBlank(t) - 1)>>
             \o Split(SubSeq(t, FirstBlank(t), Len(t)))

RECURSIVE CurrentText(_, _)
\* current_text after the first n words: each word followed by a blank
CurrentText(words, n) ==
    IF n = 0 THEN <<>>
    ELSE CurrentText(words, n - 1) \o words[n] \o <<" ">>

\* for word in words: current_text += word + " "; yield the token event
TokenEvents(words) ==
    [n \in 1..Len(words) |-> [type |-> "token", content |-> CurrentText(words, n)]]

StartEvent == [type |-> "start", message |-> <<"Processing your query...">>]
StatusEvent == [type |-> "status", message |-> <<"Querying knowledge graph...">>]
CompleteEvent == [type |-> "complete"]
ErrorEvent(error_msg) == [type |-> "error", content |-> error_msg]

\* fallback_response: the demo text with the message in it
DemoText(message) ==
    <<NL, "Demo Mode: RAG system not available.", NL, NL, "Your question: \"">>
    \o message
    \o <<"\"", NL, NL, "**This would normally:**", NL,
         "1. Search the Neo4j requirements graph", NL,
         "2. Use hybrid embedding + template matching", NL,
         "3. Generate contextual responses with domain knowledge", NL,
         "4. Stream results in real-time", NL, NL,
         "**To enable full functionality:**", NL,
         "- Configure Neo4j in config/.env", NL,
         "- Install required dependencies", NL,
         "- Initialize the RAG system", NL>>

\* the demo branch of stream_llm_response: the demo text word by word
StreamDemo(message) == TokenEvents(Split(DemoText(message)))

\* the events of the RAG branch that end with one more completion event after
\* an error event
StreamAnswerCompletingErrors(out) ==
    IF out.raised \/ "error" \in DOMAIN out.val
    THEN <<ErrorEvent(<<"Error">>), CompleteEvent>>
    ELSE TokenEvents(Split(<<"**Method**: ", out.val.method, " | **Confidence**: ">>
                           \o Fmt2f(GetField(out.val, "confidence", 0))
                           \o <<NL, NL>>
                           \o GetField(out.val, "response", <<"No response generated">>)))

\* the RAG branch of stream_llm_response after the status event: the events
\* yielded for what rag_system.query(message) returned or raised
StreamAnswer(out) ==
    IF out.raised
    THEN <<ErrorEvent(<<"RAG Error: ">> \o out.exc)>>
    ELSE LET response_data == out.val
         IN  IF "error" \in DOMAIN response_data
             THEN <<ErrorEvent(<<"Error: ">> \o response_data.error)>>
             ELSE LET full_response == GetField(response_data, "response",
                                                <<"No response generated">>)
                      method_used == GetField(response_data, "method", "unknown")
                      confidence == GetField(response_data, "confidence", 0)
                      metadata == <<"**Method**: ", method_used, " | **Confidence**: ">>
                                  \o Fmt2f(confidence) \o <<NL, NL>>
                      response_text == metadata \o full_response
                  IN  TokenEvents(Split(response_text))

\* the type of every event, in order
Types(events) == [i \in 1..Len(events) |-> events[i].type]

\* the JSON bodies posted to /chat: no message, a blank message, questions
ChatBodies ==
    { <<>>, << <<" ">> >>, << <<"who are the stakeholders">> >>,
      << <<" ">> \o <<"compute the weighted average of all quarterly risk scores">> >> }

\* what self.embedding_model.encode may raise in find_best_template
EncodeError == <<"CUDA out of memory">>

\* the state of the process after app.py is imported: no instance yet
InitWeb ==
    /\ RAG_AVAILABLE \in BOOLEAN
    /\ rag_system = <<>>
    /\ instances = 0
    /\ workers = [t \in Threads |-> Waiting]
    /\ arrivals = 0
    /\ neo4j_available = FALSE
    /\ llm = "None"
    /\ query_templates = <<>>
    /\ template_keys = <<>>
    /\ template_embeddings = <<>>
    /\ storeUp \in BOOLEAN
    /\ request = <<>>
    /\ response = NoResponse
    /\ calls = <<>>
    /\ earlier = <<>>
    /\ history = <<>>
    /\ threads = [t \in Threads |-> Idle]

\* what a web step leaves alone besides the instance
WebFrame == UNCHANGED <<storeUp, request, response, calls, earlier, history, threads,
                        RAG_AVAILABLE>>

InstanceFrame == UNCHANGED <<neo4j_available, llm, query_templates, template_keys,
                             template_embeddings>>

Free(t) == workers[t].pc \in {"idle", "done"}

\* GET /: index() enters init_rag_system and reads RAG_AVAILABLE and rag_system
W_Index(t) ==
    /\ Free(t)
    /\ arrivals < MaxArrivals
    /\ arrivals' = arrivals + 1
    /\ workers' = [workers EXCEPT ![t] =
          IF RAG_AVAILABLE /\ rag_system = <<>>
          THEN [Waiting EXCEPT !.pc = "init", !.route = "index",
                               !.at_arrival = rag_system]
          ELSE [Waiting EXCEPT !.pc = "done", !.route = "index", !.status = 200,
                               !.at_arrival = rag_system]]
    /\ UNCHANGED <<rag_system, instances>>
    /\ InstanceFrame
    /\ WebFrame

\* a chat stream that makes the instance itself when there is none
W_CheckInitialising(t) ==
    /\ workers[t].pc = "check"
    /\ rag_system' = IF RAG_AVAILABLE /\ rag_system = <<>>
                     THEN <<instances + 1>> ELSE rag_system
    /\ instances' = IF RAG_AVAILABLE /\ rag_system = <<>>
                    THEN instances + 1 ELSE instances
    /\ neo4j_available' = storeUp
    /\ llm' = "None"
    /\ query_templates' = SetupQueryTemplates
    /\ template_keys' = SetupTemplateKeys(SetupQueryTemplates)
    /\ template_embeddings' = SetupEmbeddings(SetupQueryTemplates)
    /\ workers' = [workers EXCEPT ![t] =
          IF ~RAG_AVAILABLE
          THEN [@ EXCEPT !.pc = "done", !.at_check = rag_system,
                         !.events = @ \o StreamDemo(workers[t].message)
                                      \o <<CompleteEvent>>,
                         !.trace = @ \o Types(StreamDemo(workers[t].message))
                                     \o <<"complete">>]
          ELSE [@ EXCEPT !.pc = "query", !.at_check = rag_system,
                         !.events = Append(@, StatusEvent),
                         !.trace = Append(@, "status")]]
    /\ UNCHANGED arrivals
    /\ WebFrame

\* rag_system = FastHybridRAG() succeeds: __init__ sets up the connections,
\* the catalog and the embeddings, and the global is assigned
W_Construct(t, available, model) ==
    /\ workers[t].pc = "init"
    /\ neo4j_available' = available
    /\ llm' = model
    /\ query_templates' = SetupQueryTemplates
    /\ template_keys' = SetupTemplateKeys(SetupQueryTemplates)
    /\ template_embeddings' = SetupEmbeddings(SetupQueryTemplates)
    /\ instances' = instances + 1
    /\ rag_system' = <<instances + 1>>
    /\ workers' = [workers EXCEPT ![t] = [@ EXCEPT !.pc = "done", !.status = 200]]
    /\ UNCHANGED arrivals
    /\ WebFrame

\* FastHybridRAG() raises (the embedding model cannot be loaded): the except
\* clause of init_rag_system returns False and the global stays None
W_ConstructFails(t) ==
    /\ workers[t].pc = "init"
    /\ workers' = [workers EXCEPT ![t] = [@ EXCEPT !.pc = "done", !.status = 200]]
    /\ UNCHANGED <<rag_system, instances, arrivals>>
    /\ InstanceFrame
    /\ WebFrame

\* POST /chat: chat() up to its return; body: <<>> (no message) or <<message>>
W_Chat(t, body) ==
    /\ Free(t)
    /\ arrivals < MaxArrivals
    /\ arrivals' = arrivals + 1
    /\ workers' = [workers EXCEPT ![t] =
          IF body = <<>> \/ Strip(body[1]) = <<>>
          THEN [Waiting EXCEPT !.pc = "done", !.route = "chat", !.status = 400,
                               !.at_arrival = rag_system]
          ELSE [Waiting EXCEPT !.pc = "start", !.route = "chat", !.status = 200,
                               !.message = Strip(body[1]),
                               !.at_arrival = rag_system]]
    /\ UNCHANGED <<rag_system, instances>>
    /\ InstanceFrame
    /\ WebFrame

\* stream_llm_response yields the start event
W_Start(t) ==
    /\ workers[t].pc = "start"
    /\ workers' = [workers EXCEPT ![t] =
          [@ EXCEPT !.pc = "check",
                    !.events = Append(@, StartEvent),
                    !.trace = Append(@, "start")]]
    /\ UNCHANGED <<rag_system, instances, arrivals>>
    /\ InstanceFrame
    /\ WebFrame

\* if not RAG_AVAILABLE or rag_system is None: the demo text and the
\* completion event; else the status event
W_Check(t) ==
    /\ workers[t].pc = "check"
    /\ workers' = [workers EXCEPT ![t] =
          IF ~RAG_AVAILABLE \/ rag_system = <<>>
          THEN [@ EXCEPT !.pc = "done", !.at_check = rag_system,
                         !.events = @ \o StreamDemo(workers[t].message)
                                      \o <<CompleteEvent>>,
                         !.trace = @ \o Types(StreamDemo(workers[t].message))
                                     \o <<"complete">>]
          ELSE [@ EXCEPT !.pc = "query", !.at_check = rag_system,
                         !.events = Append(@, StatusEvent),
                         !.trace = Append(@, "status")]]
    /\ UNCHANGED <<rag_system, instances, arrivals>>
    /\ InstanceFrame
    /\ WebFrame

\* response_data = rag_system.query(message) on the instance the global names
\* now, the events for it and the completion event; encodes: the embedding
\* model encodes the message (a failure propagates out of query)
W_Query(t, encodes, generated, choice) ==
    LET out == IF encodes
               THEN query(workers[t].message, DefaultThreshold, generated,
                          [up |-> storeUp, choice |-> choice])
               ELSE Raise(EncodeError, <<"find_best_template raised">>)
    IN  /\ workers[t].pc = "query"
        /\ workers' = [workers EXCEPT ![t] =
              [@ EXCEPT !.pc = "done",
                        !.response_data = <<[raised |-> out.raised, exc |-> out.exc,
                                             val |-> out.val]>>,
                        !.events = @ \o StreamAnswer(out) \o <<CompleteEvent>>,
                        !.trace = @ \o <<"rag_system.query">>
                                    \o Types(StreamAnswer(out)) \o <<"complete">>]]
        /\ request' = <<[question |-> workers[t].message,
                         similarity_threshold |-> DefaultThreshold]>>
        /\ response' = [raised |-> out.raised, exc |-> out.exc, val |-> out.val]
        /\ calls' = out.calls
        /\ UNCHANGED <<rag_system, instances, arrivals, RAG_AVAILABLE, storeUp,
                       earlier, history, threads>>
        /\ InstanceFrame

\* requests to / and /chat on the server's threads, in any interleaving
NextWeb ==
    \/ \E t \in Threads : W_Index(t)
    \/ \E t \in Threads : \E available \in (IF storeUp THEN BOOLEAN ELSE {FALSE}) :
          \E model \in {"OllamaLLM", "None"} : W_Construct(t, available, model)
    \/ \E t \in Threads : W_ConstructFails(t)
    \/ \E t \in Threads : \E body \in ChatBodies : W_Chat(t, body)
    \/ \E t \in Threads : W_Start(t)
    \/ \E t \in Threads : W_Check(t)
    \/ \E t \in {u \in Threads : workers[u].pc = "query"} : \E encodes \in BOOLEAN :
          \E generated \in (IF encodes
                            THEN GeneratedDrawn(workers[t].message, DefaultThreshold)
                                 \cap CallsLlmReplies
                            ELSE {Return(GeneratedCypher, <<>>)}) :
             \E choice \in (IF encodes /\ ChoicesDrawn(workers[t].message, DefaultThreshold,
                                                       generated) = StoreChoices
                            THEN CallsStoreChoices ELSE {Return(<<>>, <<>>)}) :
                W_Query(t, encodes, generated, choice)

SpecWeb == InitWeb /\ [][NextWeb]_vars

-----------------------------------------------------------------------------
(* C21 *)

\* C21: under any interleaving of requests to /, FastHybridRAG is constructed
\* at most once and the global rag_system, once set, is never replaced.
C21_ConstructedOnce ==
    /\ [](instances <= 1)
    /\ [][rag_system # <<>> => rag_system' = rag_system]_vars

-----------------------------------------------------------------------------
(* C26 *)

\* the content of the last token event of a stream
FinalContent(events) ==
    LET tokens == SelectSeq(events, LAMBDA e : e.type = "token")
    IN  IF tokens = <<>> THEN <<>> ELSE tokens[Len(tokens)].content

\* C26: whenever query returns a response without an error field, the token
\* events of the stream end with content that contains the response's answer
\* and, as confidence, its similarity.
C26_RouterResultDelivered ==
    \A t \in Threads :
        LET w == workers[t]
        IN  (/\ w.route = "chat" /\ w.pc = "done" /\ w.response_data # <<>>
             /\ ~w.response_data[1].raised
             /\ "error" \notin DOMAIN w.response_data[1].val)
            => LET val == w.response_data[1].val
                   final == FinalContent(w.events)
               IN  /\ Contains(final, Join(<<" ">>, Split(val.answer)))
                   /\ Contains(final, <<" | **Confidence**: ">> \o Fmt2f(val.similarity))

-----------------------------------------------------------------------------
(* C27 *)

\* how many of the entries of a sequence are x
Count(seq, x) == Len(SelectSeq(seq, LAMBDA e : e = x))

\* C27: in every chat stream the first event is the start event, a status
\* event comes before the call of query, and when the stream has ended (demo
\* text, answer, error response or exception of query) there is exactly one
\* completion event and it is the last event; none is sent before.
C27_EventOrder ==
    \A t \in Threads :
        LET w == workers[t]
            types == Types(w.events)
        IN  w.route = "chat" =>
              /\ types = SelectSeq(w.trace, LAMBDA x : x # "rag_system.query")
              /\ (w.status = 200 /\ w.pc # "start") <=> types # <<>>
              /\ types # <<>> => types[1] = "start"
              /\ Count(types, "start") <= 1
              /\ \A i \in 1..Len(w.trace) :
                    w.trace[i] = "rag_system.query" =>
                        \E k \in 1..(i - 1) : w.trace[k] = "status"
              /\ (w.pc = "done" /\ w.status = 200) =>
                    /\ Count(types, "complete") = 1
                    /\ types[Len(types)] = "complete"
              /\ w.pc # "done" => Count(types, "complete") = 0

\* a stream has ended after query raised: start, status, the call, the error
\* event, the completion event
C27_Witness ==
    \E t \in Threads :
        /\ workers[t].pc = "done"
        /\ workers[t].response_data # <<>>
        /\ workers[t].response_data[1].raised
        /\ workers[t].trace = <<"start", "status", "rag_system.query", "error",
                                "complete">>

-----------------------------------------------------------------------------
(* C30 *)

\* calls of rag_system.query a request has made
Queries(w) == Count(w.trace, "rag_system.query")

\* the stream of the demo text for a message
DemoStream(message) == <<StartEvent>> \o StreamDemo(message) \o <<CompleteEvent>>

\* rag_system is assigned only by a request to / that constructs the instance
OnlyIndexCreates ==
    [][rag_system' # rag_system =>
          \E t \in Threads : /\ workers[t].route = "index"
                             /\ workers[t].pc = "init"
                             /\ workers'[t].pc = "done"]_vars

\* C30 (as claimed): the instance is created only by a request to /; a chat
\* request that arrives before the first successful initialisation gets the
\* demo text and never calls query, one that arrives after it calls query
\* exactly once.
C30_ByArrivalAsClaimed ==
    /\ [](\A t \in Threads :
             LET w == workers[t]
             IN  w.route = "chat" =>
                   IF w.at_arrival = <<>>
                   THEN /\ Queries(w) = 0
                        /\ w.pc = "done" => w.events = DemoStream(w.message)
                   ELSE w.pc = "done" => Queries(w) = 1)
    /\ OnlyIndexCreates

\* C30 (amended): the instance is created only by a request to /. A chat
\* request without a message or with a blank one is answered 400, streams
\* nothing and never calls query. The stream of any other chat request reads
\* rag_system after its start event: if no initialisation has succeeded by
\* then it sends the demo text and never calls query, otherwise it calls
\* query exactly once; so a request that arrives after the first successful
\* initialisation calls query exactly once, and one that arrives before it
\* may do either.
C30_ByCheck ==
    /\ [](\A t \in Threads :
             LET w == workers[t]
             IN  w.route = "chat" =>
                   /\ Queries(w) <= 1
                   /\ w.status = 400 => (w.pc = "done" /\ w.events = <<>> /\ Queries(w) = 0)
                   /\ w.pc \in {"start", "check"} => Queries(w) = 0
                   /\ (w.status = 200 /\ w.pc \in {"query", "done"}) =>
                         IF w.at_check = <<>>
                         THEN /\ w.at_arrival = <<>>
                              /\ w.pc = "done"
                              /\ Queries(w) = 0
                              /\ w.events = DemoStream(w.message)
                         ELSE w.pc = "done" => Queries(w) = 1
                   /\ (w.status = 200 /\ w.at_arrival # <<>> /\ w.pc = "done") =>
                         Queries(w) = 1)
    /\ OnlyIndexCreates

\* a chat request arrived before the instance was there, a request to / made
\* the instance before the stream read rag_system, and the stream called query
C30_Witness ==
    \E t \in Threads :
        /\ workers[t].route = "chat"
        /\ workers[t].pc = "done"
        /\ workers[t].at_arrival = <<>>
        /\ workers[t].at_check # <<>>
        /\ Queries(workers[t]) = 1

====
